---- MODULE Spec2Model ----
(***************************************************************************)
(* Order session of the custom cake studio (src/app_pro.py and             *)
(* src/app_basic.py): the Streamlit session state, one action per UI       *)
(* event or script run, the pricing function and the Intent Extractor.     *)
(*                                                                         *)
(* Python values are records [ty, n, s]; a Python str is the sequence s of *)
(* its pieces (one piece per character where len() is taken, one piece per *)
(* fixed text elsewhere).  Korean literals of the source are written as    *)
(* ASCII tags.  A dict is a function whose DOMAIN is its key set.          *)
(***************************************************************************)
EXTENDS Integers, Sequences, FiniteSets, TLC

VARIABLES
    app,                      \* "pro" (app_pro.py) or "basic" (app_basic.py)
    api_key,                  \* OPENAI_API_KEY: "none", "other" (no "sk-"), "sk"
    has_responses,            \* HAS_RESPONSES_API
    has_images,               \* HAS_IMAGES_API
    step,                     \* st.session_state.step
    messages,                 \* st.session_state.messages
    order,                    \* st.session_state.order
    uploaded_img,             \* st.session_state.uploaded_img
    last_img,                 \* st.session_state.last_img
    generated_design_image,   \* st.session_state.generated_design_image
    auto_generate_design,     \* st.session_state.auto_generate_design
    process_on_next,          \* st.session_state.process_on_next
    pending_prompt,           \* st.session_state.pending_prompt
    pending_placeholder_idx,  \* st.session_state.pending_placeholder_idx
    auto_generate_toggle,     \* value of the st.toggle widget
    uploader,                 \* file held by the st.file_uploader widget
    dialog_open,              \* the st.dialog of show_final_confirmation is shown
    pc,                       \* position of the script: idle, rerun, brief, image
    ai_res,                   \* local of main(): the extractor's reply
    design_brief,             \* local of main(): the generated brief
    combined_prompt,          \* locals of main(): what the design requests are built from
    img_call,                 \* frame of request_design_image: model, kwargs, depth, attempt
    call_log,                 \* external requests issued for the current chat turn
    ex                        \* a single call of the extractor: its input and what it returned

vars == <<app, api_key, has_responses, has_images, step, messages, order,
          uploaded_img, last_img, generated_design_image, auto_generate_design,
          process_on_next, pending_prompt, pending_placeholder_idx,
          auto_generate_toggle, uploader, dialog_open, pc, ai_res, design_brief,
          combined_prompt, img_call, call_log, ex>>

----------------------------------------------------------------------------
(* Python values *)

None == [ty |-> "none", n |-> 0, s |-> <<>>]

PyStr(s) == [ty |-> "str", n |-> 0, s |-> s]

PyInt(n) == [ty |-> "int", n |-> n, s |-> <<>>]

PyBool(b) == [ty |-> "bool", n |-> IF b THEN 1 ELSE 0, s |-> <<>>]

\* truth value of a Python object in an if-test
Truthy(v) ==
    CASE v.ty = "none" -> FALSE
      [] v.ty = "str"  -> v.s # <<>>
      [] OTHER         -> v.n # 0

\* dict.get(k, default)
DictGet(d, k, default) == IF k \in DOMAIN d THEN d[k] ELSE default

\* d[k] = v
DictSet(d, k, v) == [x \in DOMAIN d \cup {k} |-> IF x = k THEN v ELSE d[x]]

\* d.update(p): the keys of p win, the other keys of d stay
DictUpdate(d, p) == [x \in DOMAIN d \cup DOMAIN p |-> IF x \in DOMAIN p THEN p[x] ELSE d[x]]

EmptyDict == [x \in {} |-> None]

NoFile == "None"

----------------------------------------------------------------------------
(* Catalog tables *)

\* MENU["sizes"]: 1ho, 2ho, 3ho, heart
MENU_sizes == (<<"1ho">> :> 25000) @@ (<<"2ho">> :> 36000) @@
              (<<"3ho">> :> 47000) @@ (<<"heart">> :> 42000)

\* MENU["fillings"]: fresh cream, choco, red velvet, tiramisu
MENU_fillings == (<<"cream">> :> 0) @@ (<<"choco">> :> 3500) @@
                 (<<"redvelvet">> :> 6000) @@ (<<"tiramisu">> :> 5500)

MENU_base_custom == 20000

MENU_extras_image == 10000

MENU_extras_color == 5000

MENU_extras_object == 2000

MENU_extras_long_lettering == 3000

LongLetteringLen == 10

\* SCHEDULE: date -> list of time slots
SCHEDULE == ("2025-12-24" :> <<"10:00", "11:00", "14:00", "16:00">>) @@
            ("2025-12-25" :> <<>>) @@
            ("2025-12-26" :> <<"11:00", "13:00", "15:00", "17:00", "19:00">>)

----------------------------------------------------------------------------
(* Pricing Engine *)

\* MENU[table].get(key, 0): a key that is no str of the table gives 0
TableGet(table, key) ==
    IF key.ty = "str" /\ key.s \in DOMAIN table THEN table[key.s] ELSE 0

\* obj_count * MENU['extras']['object'] added to an int: int and bool multiply,
\* None (TypeError at *) and str (TypeError at +=) raise
ObjectCountRaises(v) == v.ty \notin {"int", "bool"}

\* len(lettering): only a str has a length here
LenRaises(v) == v.ty # "str"

\* the mutant of calculate_price: the flavor fee is forgotten
calculate_price_no_filling(o) ==
    LET obj == DictGet(o, "object_count", PyInt(0))
        lettering == DictGet(o, "lettering", PyStr(<<>>))
    IN  IF ObjectCountRaises(obj) \/ LenRaises(lettering)
        THEN [raised |-> TRUE, value |-> 0]
        ELSE [raised |-> FALSE,
              value |-> TableGet(MENU_sizes, DictGet(o, "size", None))
                        + MENU_base_custom
                        + (IF Truthy(DictGet(o, "has_image", None)) THEN MENU_extras_image ELSE 0)
                        + (IF Truthy(DictGet(o, "has_color", None)) THEN MENU_extras_color ELSE 0)
                        + obj.n * MENU_extras_object
                        + (IF Len(lettering.s) >= LongLetteringLen
                           THEN MENU_extras_long_lettering ELSE 0)]

\* calculate_price with the object fee charged once (flat_objects) and the long
\* lettering fee charged from long_from characters on
calculate_price_variant(o, flat_objects, long_from) ==
    LET obj == DictGet(o, "object_count", PyInt(0))
        lettering == DictGet(o, "lettering", PyStr(<<>>))
    IN  IF ObjectCountRaises(obj) \/ LenRaises(lettering)
        THEN [raised |-> TRUE, value |-> 0]
        ELSE [raised |-> FALSE,
              value |-> TableGet(MENU_sizes, DictGet(o, "size", None))
                        + TableGet(MENU_fillings, DictGet(o, "filling", None))
                        + MENU_base_custom
                        + (IF Truthy(DictGet(o, "has_image", None)) THEN MENU_extras_image ELSE 0)
                        + (IF Truthy(DictGet(o, "has_color", None)) THEN MENU_extras_color ELSE 0)
                        + (IF flat_objects
                           THEN (IF obj.n > 0 THEN MENU_extras_object ELSE 0)
                           ELSE obj.n * MENU_extras_object)
                        + (IF Len(lettering.s) >= long_from
                           THEN MENU_extras_long_lettering ELSE 0)]

\* the mutant of calculate_price: the object fee does not grow with the count
calculate_price_object_flat(o) == calculate_price_variant(o, TRUE, LongLetteringLen)

\* the mutant of calculate_price: the long lettering fee starts above 10 characters
calculate_price_long_over_10(o) == calculate_price_variant(o, FALSE, LongLetteringLen + 1)

\* calculate_price(order): the price, or raised when the arithmetic or len() raises
calculate_price(o) ==
    LET base == TableGet(MENU_sizes, DictGet(o, "size", None))
        filling == TableGet(MENU_fillings, DictGet(o, "filling", None))
        custom_fee == MENU_base_custom
        obj_count == DictGet(o, "object_count", PyInt(0))
        lettering == DictGet(o, "lettering", PyStr(<<>>))
        extra_cost ==
            (IF Truthy(DictGet(o, "has_image", None)) THEN MENU_extras_image ELSE 0)
            + (IF Truthy(DictGet(o, "has_color", None)) THEN MENU_extras_color ELSE 0)
            + obj_count.n * MENU_extras_object
            + (IF Len(lettering.s) >= LongLetteringLen
               THEN MENU_extras_long_lettering ELSE 0)
    IN  IF ObjectCountRaises(obj_count) \/ LenRaises(lettering)
        THEN [raised |-> TRUE, value |-> 0]
        ELSE [raised |-> FALSE, value |-> base + filling + custom_fee + extra_cost]

----------------------------------------------------------------------------
(* Texts.  The fixed Korean messages of the source, as tags. *)

PROCESSING_NOTICE == <<"PROCESSING">>          \* the placeholder's text

WELCOME(name) == <<"WELCOME ">> \o name        \* welcome_msg

IMG_ADDED == <<"IMAGE ADDED (+10,000)">>

IMG_REMOVED == <<"IMAGE REMOVED">>

NO_CLIENT_REPLY == <<"CLIENT NOT INITIALISED">>

NO_CLIENT_BRIEF == <<"CLIENT NOT INITIALISED.">>

NO_CHAT_API == <<"NO CHAT API">>

NO_KEY_REPLY == <<"API KEY NOT SET">>

DEFAULT_REPLY == <<"REQUEST APPLIED">>

BRIEF_UNREADABLE == <<"RESULT NOT READ">>

ERR_PREFIX == <<"ERROR: ">>                    \* analyze_intent_with_gpt's except

STEP_ERR_PREFIX == <<"PROCESSING FAILED: ">>   \* main()'s except

PARSE_ERR_PREFIX == <<"PARSE ERROR, RAW: ">>

NOT_UNDERSTOOD_PREFIX == <<"NOT UNDERSTOOD: ">>

GENERATED_HEAD == <<"DESIGN GENERATED. PROPOSAL: ">>

GENERATED_TAIL == <<" SEE SIDEBAR">>

GEN_FAILED_PREFIX == <<"IMAGE GENERATION FAILED. AI REPLY: ">>

ExcerptLen == 300

\* s[:n]
Slice(s, n) == SubSeq(s, 1, IF Len(s) < n THEN Len(s) ELSE n)

\* lettering texts of 9, 10 and 11 characters
Lettering9 == <<"H", "B", "D", " ", "M", "I", "N", "A", "!">>

Lettering10 == Lettering9 \o <<"!">>

Lettering11 == Lettering10 \o <<"!">>

----------------------------------------------------------------------------
(* The language model's answers.  A response text is a sequence of tokens:  *)
(* a fence, prose, brackets and braces, and between braces the name of the  *)
(* JSON object's members.                                                   *)

\* a parsed JSON object: its updated_order member and its response_message member
JsonObject(uo, patch, rm, reply) ==
    [kind |-> "object", uo |-> uo, patch |-> patch, rm |-> rm, reply |-> reply]

JsonArray == [kind |-> "array", uo |-> "absent", patch |-> EmptyDict, rm |-> "absent", reply |-> None]

OK_REPLY == PyStr(<<"OK">>)

Patch(k, v) == (k :> v)

\* the members a response may carry, by name
DocOf ==
    ("design"    :> JsonObject("dict", Patch("design_desc", PyStr(<<"C">>)), "present", OK_REPLY)) @@
    ("color"     :> JsonObject("dict", Patch("has_color", PyBool(TRUE)), "present", OK_REPLY)) @@
    ("count2"    :> JsonObject("dict", Patch("object_count", PyInt(2)), "present", OK_REPLY)) @@
    ("letter9"   :> JsonObject("dict", Patch("lettering", PyStr(Lettering9)), "present", OK_REPLY)) @@
    ("letter10"  :> JsonObject("dict", Patch("lettering", PyStr(Lettering10)), "present", OK_REPLY)) @@
    ("price0"    :> JsonObject("dict", Patch("price", PyInt(0)) @@ Patch("has_color", PyBool(FALSE)),
                               "present", OK_REPLY)) @@
    ("countnull" :> JsonObject("dict", Patch("object_count", None) @@ Patch("has_color", PyBool(TRUE)),
                               "present", OK_REPLY)) @@
    ("memo"      :> JsonObject("dict", Patch("memo", PyStr(<<"x">>)), "present", OK_REPLY)) @@
    ("empty"     :> JsonObject("dict", EmptyDict, "present", OK_REPLY)) @@
    ("nopatch"   :> JsonObject("absent", EmptyDict, "present", OK_REPLY)) @@
    ("nullpatch" :> JsonObject("null", EmptyDict, "present", OK_REPLY)) @@
    ("strpatch"  :> JsonObject("str", EmptyDict, "present", OK_REPLY)) @@
    ("noreply"   :> JsonObject("dict", Patch("design_desc", PyStr(<<"N">>)), "absent", None)) @@
    ("rename"    :> JsonObject("dict", Patch("name", PyStr(<<"Lee">>)) @@ Patch("phone", PyStr(<<"011">>)),
                               "present", OK_REPLY)) @@
    ("countneg"  :> JsonObject("dict", Patch("object_count", PyInt(-3)), "present", OK_REPLY)) @@
    ("colorstr"  :> JsonObject("dict", Patch("has_color", PyStr(<<"pink">>)), "present", OK_REPLY)) @@
    ("nullreply" :> JsonObject("dict", Patch("has_color", PyBool(TRUE)), "present", None)) @@
    ("numreply"  :> JsonObject("dict", Patch("has_color", PyBool(TRUE)), "present", PyInt(1))) @@
    ("imageflag" :> JsonObject("dict", Patch("has_image", PyBool(TRUE)), "present", OK_REPLY))

DocIds == DOMAIN DocOf

\* the three backquotes of a fenced code block
FENCE == "<fence>"

Bare(id) == <<"{", id, "}">>

Fenced(id) == <<FENCE, "json", "{", id, "}", FENCE>>

InProse(id) == <<"Sure:", "{", id, "}", "Done.">>

Truncated(id) == <<"{", id>>

\* a truncated object longer than the excerpt: "{" and ExcerptLen + 1 characters
LongTruncated == <<"{">> \o [i \in 1..(ExcerptLen + 1) |-> "x"]

ArrayText == <<"[", "]">>

\* a fence in content_str
HasFence(text) == \E i \in 1..Len(text) : text[i] = FENCE

\* re.search(r"\{.*\}", text, re.DOTALL): greedy, from the first "{" to the last "}"
re_search(text) ==
    LET opens == {i \in 1..Len(text) : text[i] = "{"}
        first == CHOOSE i \in opens : \A j \in opens : i <= j
        closes == {j \in 1..Len(text) : text[j] = "}" /\ opens # {} /\ j > first}
        last == CHOOSE j \in closes : \A k \in closes : k <= j
    IN  IF opens = {} \/ closes = {}
        THEN [found |-> FALSE, group |-> <<>>]
        ELSE [found |-> TRUE, group |-> SubSeq(text, first, last)]

\* json.loads(text): one object, or one array, and nothing else
json_loads(text) ==
    IF Len(text) = 3 /\ text[1] = "{" /\ text[3] = "}" /\ text[2] \in DocIds
    THEN [ok |-> TRUE, result |-> DocOf[text[2]]]
    ELSE IF text = ArrayText
    THEN [ok |-> TRUE, result |-> JsonArray]
    ELSE [ok |-> FALSE, result |-> JsonArray]

----------------------------------------------------------------------------
(* Intent Extractor.  Dicts live in a heap (a sequence of dicts, a reference *)
(* is an index) so that a copy and its original are different objects.       *)

\* the mutant of dict_copy: new_order = current_order, no copy is made
dict_alias(heap, r) == [heap |-> heap, ref |-> r]

\* current_order.copy(): a new object with the same items
dict_copy(heap, r) == [heap |-> Append(heap, heap[r]), ref |-> Len(heap) + 1]

\* new_order.update(patch)
dict_update(heap, r, patch) == [heap EXCEPT ![r] = DictUpdate(@, patch)]

\* what analyze_intent_with_gpt hands back: the heap, the returned reference,
\* the reply, whether an exception left the function, whether a request was sent
Ret(heap, ref, reply, called) ==
    [heap |-> heap, ref |-> ref, reply |-> reply, raised |-> FALSE, called |-> called]

\* lines 218-222 of app_pro.py, inside the outer try
merge_pro(heap, cur, result) ==
    LET new == dict_copy(heap, cur)
    IN  IF result.kind # "object"
        THEN Ret(new.heap, cur, PyStr(ERR_PREFIX \o <<"AttributeError">>), TRUE)
        ELSE IF result.uo = "str"
        THEN Ret(new.heap, cur, PyStr(ERR_PREFIX \o <<"ValueError">>), TRUE)
        ELSE LET merged == IF result.uo = "dict" /\ DOMAIN result.patch # {}
                           THEN dict_update(new.heap, new.ref, result.patch)
                           ELSE new.heap
                 response_message == IF result.rm = "present" THEN result.reply
                                     ELSE PyStr(DEFAULT_REPLY)
             IN  Ret(merged, new.ref, response_message, TRUE)

\* the mutant of analyze_intent_with_gpt: no check of the client, the request is
\* sent and fails
analyze_intent_no_short_circuit(user_text, heap, cur, chat_history, resp) ==
    Ret(heap, cur, PyStr(ERR_PREFIX \o <<"APIError">>), TRUE)

\* app_pro.py analyze_intent_with_gpt(user_text, current_order, chat_history);
\* resp is what the language model answers (or that the request raises)
analyze_intent_with_gpt(user_text, heap, cur, chat_history, resp) ==
    IF api_key = "none"
    THEN Ret(heap, cur, PyStr(NO_CLIENT_REPLY), FALSE)
    ELSE IF ~has_responses
    THEN Ret(heap, cur, PyStr(NO_CHAT_API), FALSE)
    ELSE IF resp.kind = "raise"
    THEN Ret(heap, cur, PyStr(ERR_PREFIX \o <<"APIError">>), TRUE)
    ELSE LET m1 == re_search(resp.text)
             content_str == IF HasFence(resp.text) /\ m1.found THEN m1.group ELSE resp.text
             first == json_loads(content_str)
             m2 == re_search(content_str)
             second == json_loads(m2.group)
         IN  IF first.ok
             THEN merge_pro(heap, cur, first.result)
             ELSE IF ~m2.found
             THEN Ret(heap, cur,
                      PyStr(NOT_UNDERSTOOD_PREFIX \o Slice(content_str, ExcerptLen)), TRUE)
             ELSE IF ~second.ok
             THEN Ret(heap, cur,
                      PyStr(PARSE_ERR_PREFIX \o Slice(content_str, ExcerptLen)), TRUE)
             ELSE merge_pro(heap, cur, second.result)

\* lines 96-98 of app_basic.py, inside the try
merge_basic(heap, cur, result) ==
    LET new == dict_copy(heap, cur)
    IN  IF result.kind # "object"
        THEN Ret(new.heap, cur, PyStr(ERR_PREFIX \o <<"AttributeError">>), TRUE)
        ELSE IF result.uo = "str"
        THEN Ret(new.heap, cur, PyStr(ERR_PREFIX \o <<"ValueError">>), TRUE)
        ELSE LET merged == IF result.uo = "dict" /\ DOMAIN result.patch # {}
                           THEN dict_update(new.heap, new.ref, result.patch)
                           ELSE new.heap
             IN  IF result.rm = "present"
                 THEN Ret(merged, new.ref, result.reply, TRUE)
                 ELSE Ret(merged, cur, PyStr(ERR_PREFIX \o <<"KeyError">>), TRUE)

\* app_basic.py analyze_intent_with_gpt(user_text, current_order, chat_history)
analyze_intent_with_gpt_basic(user_text, heap, cur, chat_history, resp) ==
    IF api_key = "none"
    THEN [heap |-> heap, ref |-> cur, reply |-> None, raised |-> TRUE, called |-> FALSE]
    ELSE IF api_key # "sk"
    THEN Ret(heap, cur, PyStr(NO_KEY_REPLY), FALSE)
    ELSE IF resp.kind = "raise"
    THEN Ret(heap, cur, PyStr(ERR_PREFIX \o <<"APIError">>), TRUE)
    ELSE LET m == re_search(resp.text)
             content == IF HasFence(resp.text) THEN m.group ELSE resp.text
             parsed == json_loads(content)
         IN  IF HasFence(resp.text) /\ ~m.found
             THEN Ret(heap, cur, PyStr(ERR_PREFIX \o <<"AttributeError">>), TRUE)
             ELSE IF ~parsed.ok
             THEN Ret(heap, cur, PyStr(ERR_PREFIX \o <<"JSONDecodeError">>), TRUE)
             ELSE merge_basic(heap, cur, parsed.result)

----------------------------------------------------------------------------
(* Bounds and inputs of the session *)

MaxMessages == 5          \* chat turns kept in one session

MaxRecursion == 3         \* Python's recursion limit, in frames of request_design_image

NoIdx == -1               \* pending_placeholder_idx is None

FormNames == {<<>>, <<"Kim">>}

FormPhones == {<<>>, <<"010">>}

FormSizes == {<<"1ho">>}

FormFillings == {<<"choco">>}

FormDates == {"2025-12-24", "2025-12-25"}

Prompts == {<<"hello">>}

Files == {"a.png"}

\* base64 texts the provider may send as b64_json
ImagePayloads == {"aW1nQQ=="}

\* base64.b64decode(image_b64): the bytes the text encodes
b64decode(image_b64) ==
    CASE image_b64 = "aW1nQQ==" -> "imgA"
      [] image_b64 = "aW1nQg==" -> "imgB"
      [] OTHER -> "bytes"

DEFAULT_IMAGE_MODEL == "dall-e-3"

ALT_IMAGE_MODEL == "dall-e-3"

\* what the language model may answer to the extractor in a session
Responses ==
    {[kind |-> "raise", text |-> <<>>]}
    \cup {[kind |-> "text", text |-> Bare(id)] : id \in {"design", "color", "count2", "countnull", "price0"}}
    \cup {[kind |-> "text", text |-> Truncated("design")]}

\* what the language model may answer to the brief generator
BriefOutcomes == {"text", "empty", "raise"}

\* what the image provider may answer to one images.generate request
ImageOutcomes == {"ok", "no_b64", "empty", "bad_response_format", "bad_quality",
                  "bad_both", "bad_other", "denied", "error"}

NoCall == [model |-> "", attempt |-> "none", kwargs |-> {}, depth |-> 0]

\* no design request is being built
NoPrompt == [prompt |-> None, design_context |-> None, lettering_context |-> None,
             filling |-> None]

ExIdle == [phase |-> "none", input |-> EmptyDict, resp |-> [kind |-> "raise", text |-> <<>>],
           arg |-> EmptyDict, ret |-> EmptyDict, same |-> FALSE, reply |-> None,
           raised |-> FALSE, called |-> FALSE]

cfgv == <<app, api_key, has_responses, has_images>>

localv == <<ai_res, design_brief, combined_prompt, img_call>>

pendv == <<process_on_next, pending_prompt, pending_placeholder_idx>>

imgv == <<uploaded_img, last_img>>

----------------------------------------------------------------------------
(* What a script run renders *)

\* render_sidebar_summary(order): calculate_price and the len() of the design text
RenderSummaryRaises(o) ==
    \/ calculate_price(o).raised
    \/ app = "pro" /\ DictGet(o, "design_desc", PyStr(<<"-">>)).ty # "str"

\* the script raises in the sidebar, before any widget of the page is drawn
SidebarCrashes ==
    \/ app = "basic" /\ api_key = "none"
    \/ step = "CHAT" /\ RenderSummaryRaises(order)

\* the chat bubbles: msg['content'].replace(...) of an assistant turn
ChatRenderCrashes ==
    \E i \in 1..Len(messages) :
        messages[i].role # "user" /\ messages[i].content.ty # "str"

\* uploaded and st.session_state.get('last_img') != uploaded.name
AttachDue == step = "CHAT" /\ uploader # NoFile /\ last_img # uploader

\* the widgets of the sidebar can be used
SidebarReady == pc = "idle" /\ ~dialog_open /\ ~SidebarCrashes /\ ~AttachDue

Turn(role, content) == [role |-> role, content |-> content]

\* the mutant of WithPrice: an order that has a price keeps it
WithPriceOnce(o) ==
    IF "price" \in DOMAIN o THEN o ELSE DictSet(o, "price", PyInt(calculate_price(o).value))

\* order['price'] = calculate_price(order), when it does not raise
WithPrice(o) == DictSet(o, "price", PyInt(calculate_price(o).value))

----------------------------------------------------------------------------
(* Initial state: the session after the first script run (lines 439-442, 556) *)

Init ==
    /\ app \in {"pro", "basic"}
    /\ api_key \in (IF app = "pro" THEN {"none", "sk"} ELSE {"none", "other", "sk"})
    /\ has_responses \in (IF app = "pro" /\ api_key = "sk" THEN BOOLEAN ELSE {FALSE})
    /\ has_images \in (IF app = "pro" /\ api_key = "sk" THEN BOOLEAN ELSE {FALSE})
    /\ step = "FORM"
    /\ messages = <<>>
    /\ order = EmptyDict
    /\ uploaded_img = NoFile
    /\ last_img = NoFile
    /\ generated_design_image = NoFile
    /\ auto_generate_design = FALSE
    /\ process_on_next = FALSE
    /\ pending_prompt = None
    /\ pending_placeholder_idx = NoIdx
    /\ auto_generate_toggle = FALSE
    /\ uploader = NoFile
    /\ dialog_open = FALSE
    /\ pc = "idle"
    /\ ai_res = None
    /\ design_brief = None
    /\ combined_prompt = NoPrompt
    /\ img_call = NoCall
    /\ call_log = <<>>
    /\ ex = ExIdle

\* st.session_state.auto_generate_design = auto_generate (line 563, app_pro only)
SyncToggle ==
    auto_generate_design' = IF app = "pro" THEN auto_generate_toggle ELSE auto_generate_design

----------------------------------------------------------------------------
(* FORM step *)

\* the order built at intake (lines 599-613)
IntakeOrder(name, phone, size, fill, date, time_sel) ==
    WithPrice(
        ("name" :> PyStr(name)) @@ ("phone" :> PyStr(phone)) @@
        ("size" :> PyStr(size)) @@ ("filling" :> PyStr(fill)) @@
        ("decoration" :> PyStr(<<"custom">>)) @@
        ("has_image" :> PyBool(FALSE)) @@ ("has_color" :> PyBool(FALSE)) @@
        ("object_count" :> PyInt(0)) @@
        ("pickupDate" :> PyStr(<<date>>)) @@ ("pickupTime" :> time_sel) @@
        ("design_desc" :> PyStr(<<"-">>)) @@ ("lettering" :> PyStr(<<"-">>)))

\* the mutant of FormRejected: the phone is not required
FormRejectedNoPhone(name, phone, time_sel) ==
    ~Truthy(PyStr(name)) \/ ~Truthy(time_sel)

\* not name or not phone or not time_sel
FormRejected(name, phone, time_sel) ==
    ~Truthy(PyStr(name)) \/ ~Truthy(PyStr(phone)) \/ ~Truthy(time_sel)

\* time_sel (lines 592-593): a slot of the date, or None when the date has none
TimeChoices(date) ==
    IF SCHEDULE[date] = <<>> THEN {None}
    ELSE {PyStr(<<SCHEDULE[date][i]>>) : i \in 1..Len(SCHEDULE[date])}

\* the slot the selectbox shows first
DefaultTime(date) ==
    IF SCHEDULE[date] = <<>> THEN None ELSE PyStr(<<SCHEDULE[date][1]>>)

\* the start button of the form
SubmitForm(name, phone, size, fill, date, time_sel) ==
    /\ SidebarReady
    /\ step = "FORM"
    /\ SyncToggle
    /\ IF FormRejected(name, phone, time_sel)
       THEN UNCHANGED <<order, messages, step, pc>>
       ELSE /\ order' = IntakeOrder(name, phone, size, fill, date, time_sel)
            /\ messages' = <<Turn("assistant", PyStr(WELCOME(name)))>>
            /\ step' = "CHAT"
            /\ pc' = "rerun"
    /\ UNCHANGED <<cfgv, imgv, generated_design_image, pendv, auto_generate_toggle,
                   uploader, dialog_open, localv, call_log, ex>>

----------------------------------------------------------------------------
(* Reference image *)

\* the mutant of Attach: the fee is added to the stored price
AttachAddsFee(f) ==
    /\ last_img' = f
    /\ uploaded_img' = f
    /\ order' = DictSet(DictSet(order, "has_image", PyBool(TRUE)), "price",
                        PyInt(order["price"].n + MENU_extras_image))
    /\ messages' = Append(messages, Turn("assistant", PyStr(IMG_ADDED)))
    /\ pc' = "rerun"

\* lines 528-536 (app_pro), 220-223 (app_basic)
Attach(f) ==
    /\ last_img' = f
    /\ uploaded_img' = f
    /\ order' = WithPrice(DictSet(order, "has_image", PyBool(TRUE)))
    /\ messages' = Append(messages, Turn("assistant", PyStr(IMG_ADDED)))
    /\ pc' = "rerun"

\* lines 541-549 (app_pro), 226-229 (app_basic)
Detach ==
    /\ uploaded_img' = NoFile
    /\ last_img' = NoFile
    /\ order' = WithPrice(DictSet(order, "has_image", PyBool(FALSE)))
    /\ messages' = Append(messages, Turn("assistant", PyStr(IMG_REMOVED)))
    /\ pc' = "rerun"

\* the user puts a file into the uploader
UploadFile(f) ==
    /\ SidebarReady
    /\ step = "CHAT"
    /\ f # uploader
    /\ Len(messages) + 1 <= MaxMessages
    /\ uploader' = f
    /\ IF last_img # f
       THEN Attach(f) /\ UNCHANGED auto_generate_design
       ELSE SyncToggle /\ UNCHANGED <<imgv, order, messages, pc>>
    /\ UNCHANGED <<cfgv, step, generated_design_image, pendv, auto_generate_toggle,
                   dialog_open, localv, call_log, ex>>

\* the user takes the file out of the uploader
ClearUploader ==
    /\ SidebarReady
    /\ step = "CHAT"
    /\ uploader # NoFile
    /\ Len(messages) + 1 <= MaxMessages
    /\ uploader' = NoFile
    /\ IF app = "basic" /\ uploaded_img # NoFile
       THEN Detach /\ UNCHANGED auto_generate_design
       ELSE SyncToggle /\ UNCHANGED <<imgv, order, messages, pc>>
    /\ UNCHANGED <<cfgv, step, generated_design_image, pendv, auto_generate_toggle,
                   dialog_open, localv, call_log, ex>>

\* the remove button of app_pro (line 540); the uploader keeps its file
RemoveImage ==
    /\ app = "pro"
    /\ SidebarReady
    /\ step = "CHAT"
    /\ uploaded_img # NoFile
    /\ Len(messages) + (IF uploader = NoFile THEN 1 ELSE 2) <= MaxMessages
    /\ Detach
    /\ UNCHANGED <<cfgv, step, generated_design_image, auto_generate_design, pendv,
                   auto_generate_toggle, uploader, dialog_open, localv, call_log, ex>>

----------------------------------------------------------------------------
(* Sidebar: toggle and confirmation *)

\* the auto-design toggle of app_pro (lines 556-563)
ToggleAutoDesign ==
    /\ app = "pro"
    /\ SidebarReady
    /\ auto_generate_toggle' = ~auto_generate_toggle
    /\ auto_generate_design' = ~auto_generate_toggle
    /\ UNCHANGED <<cfgv, step, messages, order, imgv, generated_design_image, pendv,
                   uploader, dialog_open, pc, localv, call_log, ex>>

\* the mutant of ConfirmAllowed: the dialog opens in any step
ConfirmAllowedAnyStep == TRUE

\* the mutant of ConfirmAllowed: the estimate is shown only for an order with a
\* reference image
ConfirmAllowedWithImage == step = "CHAT" /\ uploaded_img # NoFile

\* if st.session_state.step == 'CHAT' (line 516)
ConfirmAllowed == step = "CHAT"

\* the "final estimate" button of the sidebar
ClickConfirm ==
    /\ SidebarReady
    /\ dialog_open' = ConfirmAllowed
    /\ SyncToggle
    /\ UNCHANGED <<cfgv, step, messages, order, imgv, generated_design_image, pendv,
                   auto_generate_toggle, uploader, pc, localv, call_log, ex>>

\* the send button of show_final_confirmation
SendOrder ==
    /\ pc = "idle"
    /\ dialog_open
    /\ step' = "SENT"
    /\ dialog_open' = FALSE
    /\ pc' = "rerun"
    /\ UNCHANGED <<cfgv, messages, order, imgv, generated_design_image,
                   auto_generate_design, pendv, auto_generate_toggle, uploader,
                   localv, call_log, ex>>

\* the cancel button of show_final_confirmation
CancelDialog ==
    /\ pc = "idle"
    /\ dialog_open
    /\ dialog_open' = FALSE
    /\ pc' = "rerun"
    /\ UNCHANGED <<cfgv, step, messages, order, imgv, generated_design_image,
                   auto_generate_design, pendv, auto_generate_toggle, uploader,
                   localv, call_log, ex>>

\* the mutant of Reset: only the keys that main() initialises are put back, the
\* generated image and the toggle stay
ResetKeepsDesign ==
    /\ SidebarReady
    /\ step = "SENT"
    /\ step' = "FORM"
    /\ messages' = <<>>
    /\ order' = EmptyDict
    /\ uploaded_img' = NoFile
    /\ last_img' = NoFile
    /\ process_on_next' = FALSE
    /\ pending_prompt' = None
    /\ pending_placeholder_idx' = NoIdx
    /\ pc' = "rerun"
    /\ UNCHANGED <<cfgv, generated_design_image, auto_generate_design, auto_generate_toggle,
                   uploader, dialog_open, localv, call_log, ex>>

\* the restart button of the SENT page: st.session_state.clear(); what the next
\* run reads of a cleared key is its default (lines 439-442, 445, 556)
Reset ==
    /\ SidebarReady
    /\ step = "SENT"
    /\ step' = "FORM"
    /\ messages' = <<>>
    /\ order' = EmptyDict
    /\ uploaded_img' = NoFile
    /\ last_img' = NoFile
    /\ generated_design_image' = NoFile
    /\ auto_generate_design' = FALSE
    /\ auto_generate_toggle' = FALSE
    /\ process_on_next' = FALSE
    /\ pending_prompt' = None
    /\ pending_placeholder_idx' = NoIdx
    /\ pc' = "rerun"
    /\ UNCHANGED <<cfgv, uploader, dialog_open, localv, call_log, ex>>

----------------------------------------------------------------------------
(* CHAT step of app_pro: the deferred-processing protocol *)

\* the mutant of ChatInput: no placeholder turn is appended
ChatInputNoPlaceholder(prompt) ==
    /\ app = "pro"
    /\ SidebarReady
    /\ step = "CHAT"
    /\ ~ChatRenderCrashes
    /\ Len(messages) + 2 <= MaxMessages
    /\ SyncToggle
    /\ messages' = Append(messages, Turn("user", PyStr(prompt)))
    /\ pending_prompt' = PyStr(prompt)
    /\ pending_placeholder_idx' = Len(messages) + 1
    /\ process_on_next' = TRUE
    /\ pc' = "rerun"
    /\ call_log' = <<>>
    /\ UNCHANGED <<cfgv, step, order, imgv, generated_design_image, auto_generate_toggle,
                   uploader, dialog_open, localv, ex>>

\* the chat input of app_pro (lines 651-667)
ChatInput(prompt) ==
    /\ app = "pro"
    /\ SidebarReady
    /\ step = "CHAT"
    /\ ~ChatRenderCrashes
    /\ Len(messages) + 2 <= MaxMessages
    /\ SyncToggle
    /\ messages' = Append(Append(messages, Turn("user", PyStr(prompt))),
                          Turn("assistant", PyStr(PROCESSING_NOTICE)))
    /\ pending_prompt' = PyStr(prompt)
    /\ pending_placeholder_idx' = Len(messages) + 1
    /\ process_on_next' = TRUE
    /\ pc' = "rerun"
    /\ call_log' = <<>>
    /\ UNCHANGED <<cfgv, step, order, imgv, generated_design_image, auto_generate_toggle,
                   uploader, dialog_open, localv, ex>>

\* lines 490-493 and 497-500: replace the placeholder's content, or append
ReplaceOrAppend(msgs, idx, content) ==
    IF idx # NoIdx /\ 0 <= idx /\ idx < Len(msgs)
    THEN [msgs EXCEPT ![idx + 1].content = content]
    ELSE Append(msgs, Turn("assistant", content))

\* err_msg of main()'s except branch
StepError(e) == PyStr(STEP_ERR_PREFIX \o <<e>>)

\* line 486: the failure notice; the + raises when ai_res is no str
FailNotice(res) ==
    IF res.ty = "str" THEN PyStr(GEN_FAILED_PREFIX \o res.s) ELSE StepError("TypeError")

\* the mutant of EndStep: the reply is appended and the placeholder stays
EndStepAppend(content, ord, gen, log) ==
    /\ messages' = Append(messages, Turn("assistant", content))
    /\ order' = ord
    /\ generated_design_image' = gen
    /\ pending_prompt' = None
    /\ pending_placeholder_idx' = NoIdx
    /\ pc' = "rerun"
    /\ ai_res' = None
    /\ design_brief' = None
    /\ img_call' = NoCall
    /\ call_log' = log

\* the mutant of EndStep: the pending keys are not popped
EndStepKeepsPending(content, ord, gen, log) ==
    /\ messages' = ReplaceOrAppend(messages, pending_placeholder_idx, content)
    /\ order' = ord
    /\ generated_design_image' = gen
    /\ UNCHANGED <<pending_prompt, pending_placeholder_idx>>
    /\ pc' = "rerun"
    /\ ai_res' = None
    /\ design_brief' = None
    /\ img_call' = NoCall
    /\ call_log' = log

\* the end of the deferred step (lines 490-504): the placeholder gets its content,
\* the pending keys are popped, st.rerun()
EndStep(content, ord, gen, log) ==
    /\ messages' = ReplaceOrAppend(messages, pending_placeholder_idx, content)
    /\ order' = ord
    /\ generated_design_image' = gen
    /\ pending_prompt' = None
    /\ pending_placeholder_idx' = NoIdx
    /\ pc' = "rerun"
    /\ ai_res' = None
    /\ design_brief' = None
    /\ img_call' = NoCall
    /\ call_log' = log

\* the first images.generate request of a frame of request_design_image
FirstRequest(model, depth) ==
    [model |-> model, attempt |-> "first", kwargs |-> {"quality", "response_format"},
     depth |-> depth]

\* request_design_image(img_prompt) is entered (lines 314-328)
ImageStage(ord, res, brief, log) ==
    IF api_key = "none" \/ ~has_images
    THEN EndStep(FailNotice(res), ord, generated_design_image, log)
    ELSE /\ pc' = "image"
         /\ order' = ord
         /\ ai_res' = res
         /\ design_brief' = brief
         /\ img_call' = FirstRequest(DEFAULT_IMAGE_MODEL, 1)
         /\ call_log' = Append(log, "image")
         /\ UNCHANGED <<messages, generated_design_image, pending_prompt,
                        pending_placeholder_idx>>

\* the mutant of BriefStage: the image is requested without a brief
BriefStageSkipped(ord, res, log) == ImageStage(ord, res, PyStr(<<"BRIEF">>), log)

\* request_design_brief(...) is entered (lines 230-271)
BriefStage(ord, res, log) ==
    IF api_key = "none"
    THEN ImageStage(ord, res, PyStr(NO_CLIENT_BRIEF), log)
    ELSE IF ~has_responses
    THEN ImageStage(ord, res, PyStr(NO_CHAT_API), log)
    ELSE /\ pc' = "brief"
         /\ order' = ord
         /\ ai_res' = res
         /\ call_log' = Append(log, "brief")
         /\ UNCHANGED <<messages, generated_design_image, pending_prompt,
                        pending_placeholder_idx, design_brief, img_call>>

\* the mutant of DesignContext: the texts are read from the order as it was
\* before the extractor's result was stored
DesignContextStale(ord, prompt) ==
    [prompt |-> prompt,
     design_context |-> DictGet(order, "design_desc", PyStr(<<"-">>)),
     lettering_context |-> DictGet(order, "lettering", PyStr(<<"-">>)),
     filling |-> DictGet(order, "filling", PyStr(<<>>))]

\* lines 460-463: filling, design_context and lettering_context are read from
\* the session's order, and go with the user's text into both design requests
DesignContext(ord, prompt) ==
    [prompt |-> prompt,
     design_context |-> DictGet(ord, "design_desc", PyStr(<<"-">>)),
     lettering_context |-> DictGet(ord, "lettering", PyStr(<<"-">>)),
     filling |-> DictGet(ord, "filling", PyStr(<<>>))]

\* clean_hist (line 450): the turns with a truthy content
clean_hist(msgs) == SelectSeq(msgs, LAMBDA m : Truthy(m.content))

\* the run after a chat input (lines 445-455): the Intent Extractor, the price,
\* then the auto-design stage or the end of the step
ProcessPending(resp) ==
    /\ pc = "rerun"
    /\ process_on_next
    /\ process_on_next' = FALSE
    /\ LET r == analyze_intent_with_gpt(pending_prompt, <<order>>, 1,
                                        clean_hist(messages), resp)
           new_order == r.heap[r.ref]
           log == IF r.called THEN <<"extract">> ELSE <<>>
       IN  /\ IF calculate_price(new_order).raised
              THEN EndStep(StepError("TypeError"), new_order, generated_design_image, log)
              ELSE IF ~auto_generate_design
              THEN EndStep(r.reply, WithPrice(new_order), generated_design_image, log)
              ELSE BriefStage(WithPrice(new_order), r.reply, log)
           /\ combined_prompt' = IF pc' = "rerun" THEN NoPrompt
                                 ELSE DesignContext(WithPrice(new_order), pending_prompt)
    /\ UNCHANGED <<cfgv, step, imgv, auto_generate_design, auto_generate_toggle,
                   uploader, dialog_open, ex>>

\* the Design Brief Generator's request returns or raises (lines 259-267)
BriefReturns(outcome) ==
    /\ pc = "brief"
    /\ CASE outcome = "raise" ->
              EndStep(StepError("APIError"), order, generated_design_image, call_log)
         [] outcome = "text" ->
              ImageStage(order, ai_res, PyStr(<<"BRIEF">>), call_log)
         [] OTHER ->
              ImageStage(order, ai_res, PyStr(BRIEF_UNREADABLE), call_log)
    /\ combined_prompt' = IF pc' = "rerun" THEN NoPrompt ELSE combined_prompt
    /\ UNCHANGED <<cfgv, step, imgv, auto_generate_design, process_on_next,
                   auto_generate_toggle, uploader, dialog_open, ex>>

\* lines 475-484: the image is kept, design_desc becomes the brief
DesignGenerated(payload) ==
    EndStep(PyStr(GENERATED_HEAD \o design_brief.s \o GENERATED_TAIL),
            WithPrice(DictSet(order, "design_desc", design_brief)),
            b64decode(payload), call_log)

\* the mutant of ImageRaises: main() has no except branch, the run just ends
ImageRaisesUncaught(e) ==
    /\ pc' = "idle"
    /\ UNCHANGED <<messages, order, generated_design_image, pending_prompt,
                   pending_placeholder_idx, ai_res, design_brief, img_call, call_log>>

\* the exception leaves request_design_image and reaches main()'s except
ImageRaises(e) == EndStep(StepError(e), order, generated_design_image, call_log)

\* the mutant of RetryRequest: the request is sent again as it was
RetryRequestSameKwargs(dropped) ==
    /\ img_call' = [img_call EXCEPT !.attempt = "retry"]
    /\ call_log' = Append(call_log, "image_retry")
    /\ UNCHANGED <<messages, order, generated_design_image, pending_prompt,
                   pending_placeholder_idx, pc, ai_res, design_brief>>

\* the request is sent again from the except branch (line 335)
RetryRequest(dropped) ==
    /\ img_call' = [img_call EXCEPT !.attempt = "retry", !.kwargs = @ \ dropped]
    /\ call_log' = Append(call_log, "image_retry")
    /\ UNCHANGED <<messages, order, generated_design_image, pending_prompt,
                   pending_placeholder_idx, pc, ai_res, design_brief>>

\* return request_design_image(prompt, ALT_IMAGE_MODEL) (line 338)
AlternateModel ==
    IF img_call.depth + 1 > MaxRecursion
    THEN ImageRaises("RecursionError")
    ELSE /\ img_call' = FirstRequest(ALT_IMAGE_MODEL, img_call.depth + 1)
         /\ call_log' = Append(call_log, "image_alt")
         /\ UNCHANGED <<messages, order, generated_design_image, pending_prompt,
                        pending_placeholder_idx, pc, ai_res, design_brief>>

\* one images.generate request returns or raises (lines 327-342)
ImageRequest(outcome, payload) ==
    /\ pc = "image"
    /\ CASE outcome = "ok" -> DesignGenerated(payload)
         [] outcome = "empty" ->
              EndStep(FailNotice(ai_res), order, generated_design_image, call_log)
         [] outcome = "no_b64" -> ImageRaises("TypeError")
         [] outcome \in {"bad_response_format", "bad_quality", "bad_both", "bad_other"} ->
              IF img_call.attempt = "first"
              THEN RetryRequest(CASE outcome = "bad_response_format" -> {"response_format"}
                                  [] outcome = "bad_quality" -> {"quality"}
                                  [] outcome = "bad_both" -> {"response_format", "quality"}
                                  [] OTHER -> {})
              ELSE ImageRaises("BadRequestError")
         [] outcome = "denied" ->
              IF img_call.attempt = "first" /\ img_call.model = DEFAULT_IMAGE_MODEL
              THEN AlternateModel
              ELSE ImageRaises("PermissionDeniedError")
         [] OTHER -> ImageRaises("APIError")
    /\ combined_prompt' = IF pc' = "rerun" THEN NoPrompt ELSE combined_prompt
    /\ UNCHANGED <<cfgv, step, imgv, auto_generate_design, process_on_next,
                   auto_generate_toggle, uploader, dialog_open, ex>>

----------------------------------------------------------------------------
(* CHAT step of app_basic: the whole turn in one run (lines 271-278) *)

ChatInputBasic(prompt, resp) ==
    /\ app = "basic"
    /\ SidebarReady
    /\ step = "CHAT"
    /\ ~ChatRenderCrashes
    /\ Len(messages) + 2 <= MaxMessages
    /\ LET msgs == Append(messages, Turn("user", PyStr(prompt)))
           r == analyze_intent_with_gpt_basic(PyStr(prompt), <<order>>, 1, msgs, resp)
           new_order == r.heap[r.ref]
       IN  /\ call_log' = IF r.called THEN <<"extract">> ELSE <<>>
           /\ IF r.raised
              THEN messages' = msgs /\ UNCHANGED <<order, pc>>
              ELSE IF calculate_price(new_order).raised
              THEN messages' = msgs /\ order' = new_order /\ UNCHANGED pc
              ELSE /\ messages' = Append(msgs, Turn("assistant", r.reply))
                   /\ order' = WithPrice(new_order)
                   /\ pc' = "rerun"
    /\ UNCHANGED <<cfgv, step, imgv, generated_design_image, auto_generate_design,
                   pendv, auto_generate_toggle, uploader, dialog_open, localv, ex>>

----------------------------------------------------------------------------
(* The run that st.rerun() asks for, with no UI event *)

Rerun ==
    /\ pc = "rerun"
    /\ ~process_on_next
    /\ IF SidebarCrashes
       THEN /\ pc' = "idle"
            /\ UNCHANGED <<imgv, order, messages, auto_generate_design, uploader>>
       ELSE IF AttachDue
       THEN Attach(uploader) /\ UNCHANGED <<auto_generate_design, uploader>>
       ELSE IF app = "basic" /\ step = "CHAT" /\ uploader = NoFile /\ uploaded_img # NoFile
       THEN Detach /\ UNCHANGED <<auto_generate_design, uploader>>
       ELSE /\ pc' = "idle"
            /\ SyncToggle
            /\ uploader' = IF step = "CHAT" THEN uploader ELSE NoFile
            /\ UNCHANGED <<imgv, order, messages>>
    /\ UNCHANGED <<cfgv, step, generated_design_image, pendv, auto_generate_toggle,
                   dialog_open, localv, call_log, ex>>

Next ==
    \/ \E name \in FormNames, phone \in FormPhones, size \in FormSizes,
          fill \in FormFillings, date \in FormDates :
             SubmitForm(name, phone, size, fill, date, DefaultTime(date))
    \/ \E f \in Files : UploadFile(f)
    \/ ClearUploader
    \/ RemoveImage
    \/ ToggleAutoDesign
    \/ ClickConfirm
    \/ SendOrder
    \/ CancelDialog
    \/ Reset
    \/ \E prompt \in Prompts : ChatInput(prompt)
    \/ \E resp \in Responses : ProcessPending(resp)
    \/ \E outcome \in BriefOutcomes : BriefReturns(outcome)
    \/ \E outcome \in ImageOutcomes, payload \in ImagePayloads : ImageRequest(outcome, payload)
    \/ \E prompt \in Prompts, resp \in Responses : ChatInputBasic(prompt, resp)
    \/ Rerun

Spec == Init /\ [][Next]_vars

----------------------------------------------------------------------------
(* The intake form alone, over every catalog entry and time slot *)

NextForm ==
    \/ \E name \in FormNames, phone \in FormPhones, size \in DOMAIN MENU_sizes,
          fill \in DOMAIN MENU_fillings, date \in DOMAIN SCHEDULE :
          \E time_sel \in TimeChoices(date) :
             SubmitForm(name, phone, size, fill, date, time_sel)
    \/ ToggleAutoDesign
    \/ ClickConfirm
    \/ SendOrder
    \/ CancelDialog
    \/ Reset
    \/ Rerun

SpecForm == Init /\ [][NextForm]_vars

----------------------------------------------------------------------------
(* The session under fair scheduling: a queued run is run, and every request *)
(* returns or raises                                                         *)

FairSpec ==
    /\ Spec
    /\ WF_vars(Rerun)
    /\ WF_vars(\E resp \in Responses : ProcessPending(resp))
    /\ WF_vars(\E outcome \in BriefOutcomes : BriefReturns(outcome))
    /\ WF_vars(\E outcome \in ImageOutcomes, payload \in ImagePayloads :
                  ImageRequest(outcome, payload))

----------------------------------------------------------------------------
(* The reference image of a session in CHAT, with two files to choose from *)

AttachFiles == {"a.png", "b.png"}

AttachResponses == {[kind |-> "text", text |-> Bare(id)] : id \in {"color", "count2"}}

NextAttach ==
    \/ SubmitForm(<<"Kim">>, <<"010">>, <<"1ho">>, <<"choco">>, "2025-12-24",
                  DefaultTime("2025-12-24"))
    \/ \E f \in AttachFiles : UploadFile(f)
    \/ ClearUploader
    \/ RemoveImage
    \/ \E prompt \in Prompts : ChatInput(prompt)
    \/ \E resp \in AttachResponses : ProcessPending(resp)
    \/ \E prompt \in Prompts, resp \in AttachResponses : ChatInputBasic(prompt, resp)
    \/ Rerun

SpecAttach == Init /\ [][NextAttach]_vars

----------------------------------------------------------------------------
(* The session in CHAT when the language model answers with members the     *)
(* prompt did not ask for: other keys, other value types, no text as reply  *)

PatchResponses ==
    {[kind |-> "text", text |-> Bare(id)] :
        id \in {"color", "rename", "countneg", "countnull", "colorstr", "nullreply", "numreply",
               "imageflag"}}

NextPatch ==
    \/ SubmitForm(<<"Kim">>, <<"010">>, <<"1ho">>, <<"choco">>, "2025-12-24",
                  DefaultTime("2025-12-24"))
    \/ \E f \in Files : UploadFile(f)
    \/ ClearUploader
    \/ RemoveImage
    \/ ToggleAutoDesign
    \/ \E prompt \in Prompts : ChatInput(prompt)
    \/ \E resp \in PatchResponses : ProcessPending(resp)
    \/ \E outcome \in BriefOutcomes : BriefReturns(outcome)
    \/ \E outcome \in {"ok", "empty", "error"}, payload \in ImagePayloads :
          ImageRequest(outcome, payload)
    \/ \E prompt \in Prompts, resp \in PatchResponses : ChatInputBasic(prompt, resp)
    \/ Rerun

SpecPatch == Init /\ [][NextPatch]_vars

----------------------------------------------------------------------------
(* One call of the Intent Extractor on a chosen order and response *)

\* the order of the specification's merge example
ExampleOrder == ("design_desc" :> PyStr(<<"A">>)) @@ ("lettering" :> PyStr(<<"B">>))

ExOrders ==
    {ExampleOrder,
     IntakeOrder(<<"Kim">>, <<"010">>, <<"1ho">>, <<"choco">>, "2025-12-24", PyStr(<<"10:00">>))}

ExResponses ==
    {[kind |-> "raise", text |-> <<>>]}
    \cup {[kind |-> "text", text |-> t] :
            t \in {Bare(id) : id \in DocIds} \cup {Fenced(id) : id \in DocIds}
                  \cup {InProse(id) : id \in DocIds}
                  \cup {Truncated("design"), LongTruncated, ArrayText, <<FENCE, "no json", FENCE>>,
                        Fenced("design") \o <<"{">>, <<"Sorry,", "no", "JSON">>,
                        Bare("design") \o <<"or">> \o Bare("color")}}

ExInit ==
    /\ app \in {"pro", "basic"}
    /\ api_key \in (IF app = "pro" THEN {"none", "sk"} ELSE {"none", "other", "sk"})
    /\ has_responses \in (IF app = "pro" /\ api_key = "sk" THEN BOOLEAN ELSE {FALSE})
    /\ has_images = FALSE
    /\ step = "CHAT"
    /\ messages = <<>>
    /\ order = EmptyDict
    /\ uploaded_img = NoFile
    /\ last_img = NoFile
    /\ generated_design_image = NoFile
    /\ auto_generate_design = FALSE
    /\ process_on_next = FALSE
    /\ pending_prompt = None
    /\ pending_placeholder_idx = NoIdx
    /\ auto_generate_toggle = FALSE
    /\ uploader = NoFile
    /\ dialog_open = FALSE
    /\ pc = "idle"
    /\ ai_res = None
    /\ design_brief = None
    /\ combined_prompt = NoPrompt
    /\ img_call = NoCall
    /\ call_log = <<>>
    /\ \E o \in ExOrders, resp \in ExResponses :
          ex = [ExIdle EXCEPT !.phase = "ready", !.input = o, !.resp = resp]

\* new_order, ai_res = analyze_intent_with_gpt(prompt, order, clean_hist)
ExtractCall ==
    /\ ex.phase = "ready"
    /\ LET r == IF app = "pro"
                THEN analyze_intent_with_gpt(PyStr(<<"hello">>), <<ex.input>>, 1, <<>>, ex.resp)
                ELSE analyze_intent_with_gpt_basic(PyStr(<<"hello">>), <<ex.input>>, 1, <<>>,
                                                   ex.resp)
       IN  ex' = [ex EXCEPT !.phase = "done", !.arg = r.heap[1], !.ret = r.heap[r.ref],
                            !.same = (r.ref = 1), !.reply = r.reply,
                            !.raised = r.raised, !.called = r.called]
    /\ UNCHANGED <<cfgv, step, messages, order, imgv, generated_design_image,
                   auto_generate_design, pendv, auto_generate_toggle, uploader,
                   dialog_open, pc, localv, call_log>>

SpecExtract == ExInit /\ [][ExtractCall]_vars

----------------------------------------------------------------------------
(* The Pricing Engine alone: an order is built field by field, starting from *)
(* the empty dict, and priced                                                *)

\* the values a field of the order is set to: catalog keys and keys the catalog
\* does not have, both flags, counts, letterings around the boundary, a price
PriceFields ==
    ({"size"} \X {PyStr(<<"1ho">>), PyStr(<<"heart">>), PyStr(<<"9ho">>)})
    \cup ({"filling"} \X {PyStr(<<"choco">>), PyStr(<<"tiramisu">>), PyStr(<<"mint">>)})
    \cup ({"has_image", "has_color"} \X {PyBool(TRUE), PyBool(FALSE)})
    \cup ({"object_count"} \X {PyInt(0), PyInt(1), PyInt(3)})
    \cup ({"lettering"} \X {PyStr(<<>>), PyStr(Lettering9), PyStr(Lettering10), PyStr(Lettering11)})
    \cup ({"price"} \X {PyInt(0)})

PriceInit ==
    /\ app \in {"pro", "basic"}
    /\ api_key = "sk"
    /\ has_responses = FALSE
    /\ has_images = FALSE
    /\ step = "CHAT"
    /\ messages = <<>>
    /\ order = EmptyDict
    /\ uploaded_img = NoFile
    /\ last_img = NoFile
    /\ generated_design_image = NoFile
    /\ auto_generate_design = FALSE
    /\ process_on_next = FALSE
    /\ pending_prompt = None
    /\ pending_placeholder_idx = NoIdx
    /\ auto_generate_toggle = FALSE
    /\ uploader = NoFile
    /\ dialog_open = FALSE
    /\ pc = "idle"
    /\ ai_res = None
    /\ design_brief = None
    /\ combined_prompt = NoPrompt
    /\ img_call = NoCall
    /\ call_log = <<>>
    /\ ex = [ExIdle EXCEPT !.phase = "unpriced"]

\* order[k] = v
SetField(f) ==
    /\ order' = DictSet(order, f[1], f[2])
    /\ ex' = [ExIdle EXCEPT !.phase = "unpriced"]
    /\ UNCHANGED <<cfgv, step, messages, imgv, generated_design_image,
                   auto_generate_design, pendv, auto_generate_toggle, uploader,
                   dialog_open, pc, localv, call_log>>

\* calculate_price(order) is called and its result kept
PriceCall ==
    /\ LET r == calculate_price(order)
       IN  ex' = [ex EXCEPT !.phase = "priced", !.input = order, !.raised = r.raised,
                            !.reply = IF r.raised THEN None ELSE PyInt(r.value)]
    /\ UNCHANGED <<cfgv, step, messages, order, imgv, generated_design_image,
                   auto_generate_design, pendv, auto_generate_toggle, uploader,
                   dialog_open, pc, localv, call_log>>

NextPrice ==
    \/ \E f \in PriceFields : SetField(f)
    \/ PriceCall

SpecPrice == PriceInit /\ [][NextPrice]_vars

----------------------------------------------------------------------------
(* Claims *)

\* C1: at the end of every script run with step CHAT or SENT the stored price
\* is calculate_price(order), whatever the extractor merged
C1_PriceIsCurrent ==
    (pc \in {"idle", "rerun"} /\ step \in {"CHAT", "SENT"}) =>
        /\ ~calculate_price(order).raised
        /\ "price" \in DOMAIN order
        /\ order["price"] = PyInt(calculate_price(order).value)

\* the session as st.session_state.clear() and the next run's defaults leave it
FreshSession ==
    /\ step = "FORM"
    /\ messages = <<>>
    /\ order = EmptyDict
    /\ uploaded_img = NoFile
    /\ generated_design_image = NoFile
    /\ ~process_on_next
    /\ pending_prompt = None
    /\ pending_placeholder_idx = NoIdx

\* C2: the step changes only FORM -> CHAT, CHAT -> SENT, or to FORM by a full reset
C2_PhaseSteps ==
    [][step' # step =>
          \/ step = "FORM" /\ step' = "CHAT"
          \/ step = "CHAT" /\ step' = "SENT"
          \/ FreshSession']_vars

\* a session that went through FORM, CHAT and SENT has just been reset
C2_Witness == step = "FORM" /\ pc = "rerun"

\* C3: a submitted form moves FORM -> CHAT exactly when name, phone and pickup
\* time are all given; a rejected form leaves step, order and history as they were
C3_FormGuard ==
    [][/\ step = "FORM" =>
             \A name \in FormNames, phone \in FormPhones, size \in DOMAIN MENU_sizes,
                fill \in DOMAIN MENU_fillings, date \in DOMAIN SCHEDULE :
                \A time_sel \in TimeChoices(date) :
                   SubmitForm(name, phone, size, fill, date, time_sel) =>
                      /\ (step' = "CHAT") <=> (name # <<>> /\ phone # <<>> /\ time_sel # None)
                      /\ step' # "CHAT" => UNCHANGED <<step, order, messages>>
       /\ (step = "FORM" /\ step' = "CHAT") =>
             /\ order'["name"] # PyStr(<<>>)
             /\ order'["phone"] # PyStr(<<>>)
             /\ order'["pickupTime"] # None
             /\ SCHEDULE[order'["pickupDate"].s[1]] # <<>>]_vars

\* a form with a late slot of the last date was accepted
C3_Witness ==
    /\ step = "CHAT"
    /\ pc = "rerun"
    /\ Len(messages) = 1
    /\ order["pickupDate"] = PyStr(<<"2025-12-26">>)
    /\ order["pickupTime"] = PyStr(<<"19:00">>)

\* C4: right after FORM -> CHAT the extras are zeroed, the design fields are "-",
\* the price is size fee + flavor fee + custom fee, and the history is the
\* assistant's welcome turn alone
C4_IntakeState ==
    [][(step = "FORM" /\ step' = "CHAT") =>
          /\ order'["has_image"] = PyBool(FALSE)
          /\ order'["has_color"] = PyBool(FALSE)
          /\ order'["object_count"] = PyInt(0)
          /\ order'["design_desc"] = PyStr(<<"-">>)
          /\ order'["lettering"] = PyStr(<<"-">>)
          /\ order'["price"] = PyInt(MENU_sizes[order'["size"].s]
                                     + MENU_fillings[order'["filling"].s]
                                     + MENU_base_custom)
          /\ order'["price"] = PyInt(calculate_price(order').value)
          /\ Len(messages') = 1
          /\ messages'[1].role = "assistant"
          /\ messages'[1].content = PyStr(WELCOME(order'["name"].s))]_vars

\* the intake of a 3ho red velvet cake: 47000 + 6000 + 20000
C4_Witness ==
    /\ step = "CHAT"
    /\ pc = "rerun"
    /\ Len(messages) = 1
    /\ order["size"] = PyStr(<<"3ho">>)
    /\ order["filling"] = PyStr(<<"redvelvet">>)
    /\ order["price"] = PyInt(73000)

\* C5: the run that receives a chat input appends the user turn and the
\* placeholder, records the input and the placeholder's index, leaves the order
\* alone and sends no request; while the flag is set no request has been sent
C5_FirstCycle ==
    [][/\ (process_on_next' /\ ~process_on_next) =>
             /\ Len(messages') = Len(messages) + 2
             /\ SubSeq(messages', 1, Len(messages)) = messages
             /\ pending_prompt'.ty = "str"
             /\ messages'[Len(messages) + 1] = Turn("user", pending_prompt')
             /\ messages'[Len(messages) + 2] = Turn("assistant", PyStr(PROCESSING_NOTICE))
             /\ pending_placeholder_idx' = Len(messages) + 1
             /\ order' = order
             /\ generated_design_image' = generated_design_image
             /\ pc' = "rerun"
       /\ process_on_next' => call_log' = <<>>]_vars

\* a chat input has been taken and its processing is still to come
C5_Witness ==
    /\ process_on_next
    /\ pc = "rerun"
    /\ Len(messages) = 3
    /\ messages[3].content = PyStr(PROCESSING_NOTICE)

\* the deferred step is under way
DeferredRunning == (pc = "rerun" /\ process_on_next) \/ pc \in {"brief", "image"}

\* C6: the deferred step changes nothing of the history but the content of the
\* turn at the recorded index, which stays an assistant turn at its place
C6_PlaceholderReplaced ==
    [][DeferredRunning =>
          /\ pending_placeholder_idx + 1 \in 1..Len(messages)
          /\ Len(messages') = Len(messages)
          /\ \A j \in 1..Len(messages) :
                /\ messages'[j].role = messages[j].role
                /\ j # pending_placeholder_idx + 1 => messages'[j] = messages[j]
          /\ messages[pending_placeholder_idx + 1].role = "assistant"]_vars

\* the turn of a main() error message
IsStepError(m) ==
    m.content.ty = "str" /\ m.content.s # <<>> /\ m.content.s[1] = STEP_ERR_PREFIX[1]

\* a deferred step ended in the except branch and one ended normally
C6_Witness ==
    /\ ~DeferredRunning
    /\ Len(messages) = 5
    /\ IsStepError(messages[3])
    /\ messages[5].content = OK_REPLY

\* C7: once a deferred step has ended in main()'s except branch the session is
\* still in CHAT with nothing pending, and the page draws its chat input again
C7_FailedTurnLeavesSessionUsable ==
    (pc = "idle" /\ step = "CHAT" /\ \E i \in 1..Len(messages) : IsStepError(messages[i])) =>
        /\ ~process_on_next
        /\ pending_prompt = None
        /\ pending_placeholder_idx = NoIdx
        /\ ~SidebarCrashes
        /\ ~ChatRenderCrashes

\* C8: every chat input is followed by a state with nothing pending, no request
\* in flight and no placeholder left
C8_TurnCompletes ==
    process_on_next ~>
        (/\ ~process_on_next
         /\ pc \in {"rerun", "idle"}
         /\ pending_prompt = None
         /\ pending_placeholder_idx = NoIdx
         /\ \A i \in 1..Len(messages) : messages[i].content # PyStr(PROCESSING_NOTICE))

\* the image chain has fallen back to the alternate model and is retrying there
C8_Witness ==
    /\ pc = "image"
    /\ img_call.depth = 2
    /\ img_call.attempt = "retry"
    /\ Len(call_log) = 5

\* the response is one JSON object and nothing else
IsBareObject(resp) == resp.kind = "text" /\ \E id \in DocIds : resp.text = Bare(id)

\* C9: a response that is a JSON object with a patch gives the current order
\* with the patch's keys overridden; with no patch or an empty one, the current order
C9_ShallowOverride ==
    (ex.phase = "done" /\ ex.called /\ IsBareObject(ex.resp)) =>
        LET doc == DocOf[ex.resp.text[2]]
        IN  /\ doc.uo = "dict" =>
                 /\ DOMAIN ex.ret = DOMAIN ex.input \cup DOMAIN doc.patch
                 /\ \A k \in DOMAIN ex.ret :
                       ex.ret[k] = IF k \in DOMAIN doc.patch THEN doc.patch[k] ELSE ex.input[k]
            /\ doc.uo \in {"absent", "null"} => ex.ret = ex.input

\* C10: whatever the call returns or raises, the dict passed in has the items
\* it had before the call
C10_InputNotMutated == ex.phase = "done" => ex.arg = ex.input

\* a merge came back in another object than the one passed in
C10_Witness ==
    /\ ex.phase = "done"
    /\ ~ex.same
    /\ ex.ret # ex.input
    /\ ex.arg = ex.input

\* neither the text nor the span from its first "{" to its last "}" is JSON
Unparsable(text) ==
    /\ ~json_loads(text).ok
    /\ ~(re_search(text).found /\ json_loads(re_search(text).group).ok)

\* e is a run of consecutive characters of raw
IsExcerpt(e, raw) ==
    \E i \in 1..(Len(raw) - Len(e) + 1) : e = SubSeq(raw, i, i + Len(e) - 1)

\* C11: when the response text is not JSON, even after the "{...}" span is
\* taken out, the extractor raises nothing and returns the order it was given
\* with a reply that ends in an excerpt of the raw text of at most 300 characters
C11_MalformedRecovered ==
    (ex.phase = "done" /\ ex.called /\ ex.resp.kind = "text" /\ Unparsable(ex.resp.text)) =>
        /\ ~ex.raised
        /\ ex.ret = ex.input
        /\ ex.arg = ex.input
        /\ ex.reply.ty = "str"
        /\ Len(ex.reply.s) >= 2
        /\ Len(Tail(ex.reply.s)) <= ExcerptLen
        /\ IsExcerpt(Tail(ex.reply.s), ex.resp.text)

\* app_pro without a client
NoClient == app = "pro" /\ api_key = "none"

\* C12: in app_pro without a client the extractor hands back the very order it
\* was given with the fixed reply and sends nothing; the deferred step of a chat
\* turn, with auto-design on or off, sends no request, leaves the order and the
\* generated image as they were and puts a notice in the placeholder's place
C12_NoClientShortCircuit ==
    [][NoClient =>
         /\ \A o \in ExOrders \cup {order} :
               analyze_intent_with_gpt(PyStr(<<"hello">>), <<o>>, 1, <<>>,
                                       [kind |-> "text", text |-> Bare("color")])
                  = Ret(<<o>>, 1, PyStr(NO_CLIENT_REPLY), FALSE)
         /\ (process_on_next /\ ~process_on_next') =>
               /\ order' = order
               /\ generated_design_image' = generated_design_image
               /\ call_log' = <<>>
               /\ pc' = "rerun"
               /\ pending_prompt' = None
               /\ messages' = [messages EXCEPT ![pending_placeholder_idx + 1].content =
                                  IF auto_generate_design
                                  THEN PyStr(GEN_FAILED_PREFIX \o NO_CLIENT_REPLY)
                                  ELSE PyStr(NO_CLIENT_REPLY)]]_vars

\* without a client, a turn was processed with auto-design off and the next with it on
C12_Witness ==
    /\ NoClient
    /\ pc = "rerun"
    /\ ~process_on_next
    /\ Len(messages) = 5
    /\ messages[3].content = PyStr(NO_CLIENT_REPLY)
    /\ messages[5].content = PyStr(GEN_FAILED_PREFIX \o NO_CLIENT_REPLY)
    /\ order["price"] = PyInt(48500)

\* C13: in app_basic with no key loaded every script run gets past the sidebar
\* without an exception, and the extractor sends nothing and hands back the order
\* it was given with the fixed reply that the key is not set
C13_BasicNoKeyDegrades ==
    (app = "basic" /\ api_key = "none") =>
        /\ ~SidebarCrashes
        /\ \A o \in ExOrders \cup {order} :
              analyze_intent_with_gpt_basic(PyStr(<<"hello">>), <<o>>, 1, <<>>,
                                            [kind |-> "text", text |-> Bare("color")])
                 = Ret(<<o>>, 1, PyStr(NO_KEY_REPLY), FALSE)

\* the parameters a malformed-request rejection cites
Cited(outcome) ==
    CASE outcome = "bad_response_format" -> {"response_format"}
      [] outcome = "bad_quality" -> {"quality"}
      [] OTHER -> {"response_format", "quality"}

\* the bytes of the base64 text the provider sends
PayloadBytes == [p \in ImagePayloads |-> "imgA"]

\* the turn ends with the image kept and the brief as the design
ImageKept(p) ==
    /\ generated_design_image' = PayloadBytes[p]
    /\ order'["design_desc"] = design_brief
    /\ pc' = "rerun"
    /\ pending_prompt' = None

\* C14: (a) a first request rejected as malformed for response_format or quality
\* is sent once more, to the same model, without the cited parameters, and when
\* that retry brings a payload its decoded bytes are the image; (b) a preferred
\* model refused for permission is followed by a request to the alternate
\* model, and when that brings a payload its decoded bytes are the image
C14_ImageFallbacksRecover ==
    [][pc = "image" =>
         \A p \in ImagePayloads :
            /\ \A o \in {"bad_response_format", "bad_quality", "bad_both"} :
                  (img_call.attempt = "first" /\ ImageRequest(o, p)) =>
                     /\ img_call' = [img_call EXCEPT !.attempt = "retry",
                                                     !.kwargs = @ \ Cited(o)]
                     /\ call_log' = Append(call_log, "image_retry")
                     /\ UNCHANGED <<pc, messages, order, generated_design_image>>
            /\ (img_call.attempt = "retry" /\ ImageRequest("ok", p)) => ImageKept(p)
            /\ (/\ img_call.attempt = "first"
                /\ img_call.depth = 1
                /\ ImageRequest("denied", p)) =>
                     /\ img_call.model = DEFAULT_IMAGE_MODEL
                     /\ img_call' = FirstRequest(ALT_IMAGE_MODEL, 2)
                     /\ call_log' = Append(call_log, "image_alt")
                     /\ UNCHANGED <<pc, messages, order, generated_design_image>>
            /\ (img_call.depth = 2 /\ ImageRequest("ok", p)) =>
                     /\ img_call.model = ALT_IMAGE_MODEL
                     /\ ImageKept(p)]_vars

\* the preferred model was refused, the alternate model's first request was
\* rejected as malformed, and its retry brought the image
C14_Witness ==
    /\ pc = "rerun"
    /\ ~process_on_next
    /\ call_log = <<"extract", "brief", "image", "image_alt", "image_retry">>
    /\ generated_design_image = "imgA"
    /\ order["design_desc"] = PyStr(<<"BRIEF">>)

\* the requests of the running synthesize call that went to the alternate model
AlternateRequests == {i \in 1..Len(call_log) : call_log[i] = "image_alt"}

\* C15: one synthesize call turns to the alternate model at most once, so it is
\* never more than two frames deep; a refusal of the alternate model goes to the
\* caller and no further request is sent
C15_PermissionFallbackBounded ==
    /\ Cardinality(AlternateRequests) <= 1
    /\ pc = "image" => img_call.depth <= 2

\* the fields of the order other than has_image and price
OtherFields(o) == DOMAIN o \ {"has_image", "price"}

\* C16: a run that takes a file from the uploader sets has_image, appends the
\* one notice turn and sends no request; the price goes up by the image fee when
\* has_image was false and stays as it was when an image was attached already
C16_AttachFeeOnce ==
    [][(step = "CHAT" /\ uploaded_img' # uploaded_img /\ uploaded_img' # NoFile) =>
          /\ order'["has_image"] = PyBool(TRUE)
          /\ DOMAIN order' = DOMAIN order
          /\ \A k \in OtherFields(order) : order'[k] = order[k]
          /\ order["has_image"] = PyBool(FALSE) =>
                order'["price"] = PyInt(order["price"].n + MENU_extras_image)
          /\ order["has_image"] = PyBool(TRUE) => order'["price"] = order["price"]
          /\ messages' = Append(messages, Turn("assistant", PyStr(IMG_ADDED)))
          /\ call_log' = call_log
          /\ UNCHANGED <<step, process_on_next, generated_design_image>>]_vars

\* a second file was attached while the first was: 48500 + 10000, once
C16_Witness ==
    /\ step = "CHAT"
    /\ uploaded_img = "b.png"
    /\ Len(messages) = 3
    /\ messages[2].content = PyStr(IMG_ADDED)
    /\ messages[3].content = PyStr(IMG_ADDED)
    /\ order["has_image"] = PyBool(TRUE)
    /\ order["price"] = PyInt(58500)

\* C17: the removal of the reference image clears has_image and the held file,
\* lowers the price by the image fee, changes no other field and appends the one
\* notice turn; and while the user puts no file into the uploader, a session
\* without a reference image stays without one
C17_DetachReversesAndPersists ==
    [][/\ (step = "CHAT" /\ step' = "CHAT" /\ uploaded_img # NoFile /\ uploaded_img' = NoFile) =>
             /\ order'["has_image"] = PyBool(FALSE)
             /\ last_img' = NoFile
             /\ order'["price"] = PyInt(order["price"].n - MENU_extras_image)
             /\ DOMAIN order' = DOMAIN order
             /\ \A k \in OtherFields(order) : order'[k] = order[k]
             /\ messages' = Append(messages, Turn("assistant", PyStr(IMG_REMOVED)))
       /\ (/\ step = "CHAT" /\ step' = "CHAT"
           /\ uploaded_img = NoFile
           /\ order["has_image"] = PyBool(FALSE)
           /\ uploader' = uploader) =>
             /\ uploaded_img' = NoFile
             /\ order'["has_image"] = PyBool(FALSE)]_vars

\* the fee of a key in a table of the menu, 0 for a key the table does not have
\* and for a field the order does not have
FeeOf(table, o, k) ==
    IF k \in DOMAIN o /\ o[k].s \in DOMAIN table THEN table[o[k].s] ELSE 0

\* the order has field k and it is true
Flag(o, k) == k \in DOMAIN o /\ o[k] = PyBool(TRUE)

\* the price formula of the specification
ReferencePrice(o) ==
    FeeOf(MENU_sizes, o, "size") + FeeOf(MENU_fillings, o, "filling") + 20000
    + (IF Flag(o, "has_image") THEN 10000 ELSE 0)
    + (IF Flag(o, "has_color") THEN 5000 ELSE 0)
    + 2000 * (IF "object_count" \in DOMAIN o THEN o["object_count"].n ELSE 0)
    + (IF "lettering" \in DOMAIN o /\ Len(o["lettering"].s) >= 10 THEN 3000 ELSE 0)

\* C18: calculate_price(order) raises nothing and is the reference formula of
\* the order's fields as they are now, however the order was built and whatever
\* price it stores
C18_PriceFormula ==
    ex.phase = "priced" =>
        /\ ex.input = order
        /\ ~ex.raised
        /\ ex.reply = PyInt(ReferencePrice(order))
        /\ calculate_price(order).value = ReferencePrice(order)

\* a heart cake of an unknown flavor with both flags, three objects and a
\* lettering of 11 characters, priced over a stale price:
\* 42000 + 0 + 20000 + 10000 + 5000 + 6000 + 3000
C18_Witness ==
    /\ ex.phase = "priced"
    /\ DOMAIN order = {"size", "filling", "has_image", "has_color", "object_count",
                       "lettering", "price"}
    /\ order["size"] = PyStr(<<"heart">>)
    /\ order["filling"] = PyStr(<<"mint">>)
    /\ order["has_image"] = PyBool(TRUE)
    /\ order["has_color"] = PyBool(TRUE)
    /\ order["object_count"] = PyInt(3)
    /\ order["lettering"] = PyStr(Lettering11)
    /\ order["price"] = PyInt(0)
    /\ ex.reply = PyInt(86000)

\* the price of the order with its lettering taken out
PlainPrice(o) == calculate_price(DictSet(o, "lettering", PyStr(<<>>))).value

\* C19: against the same order with an empty lettering, a lettering of up to 9
\* characters costs nothing and one of 10 characters or more costs 3000, once
C19_LetteringBoundary ==
    (ex.phase = "priced" /\ "lettering" \in DOMAIN order) =>
        LET n == Len(order["lettering"].s)
        IN  /\ ~ex.raised
            /\ n <= 9 => ex.reply.n = PlainPrice(order)
            /\ n >= 10 => ex.reply.n = PlainPrice(order) + 3000

\* a 1ho chocolate cake with a lettering of exactly 10 characters:
\* 25000 + 3500 + 20000 + 3000
C19_Witness ==
    /\ ex.phase = "priced"
    /\ DOMAIN order = {"size", "filling", "lettering"}
    /\ order["size"] = PyStr(<<"1ho">>)
    /\ order["filling"] = PyStr(<<"choco">>)
    /\ Len(order["lettering"].s) = 10
    /\ ex.reply = PyInt(51500)

\* the language model is reached by the extractor
ExtractorAnswers == api_key = "sk" /\ (app = "pro" => has_responses)

\* the chat turn that gets resp from the language model: the deferred step of
\* app_pro, the chat input of app_basic
ChatTurn(resp) == ProcessPending(resp) \/ \E prompt \in Prompts : ChatInputBasic(prompt, resp)

\* the order is a 1ho chocolate cake with no image, the given color flag and
\* object count, and the lettering of the intake
ScenarioOrder(o, color, count) ==
    /\ o["size"] = PyStr(<<"1ho">>)
    /\ o["filling"] = PyStr(<<"choco">>)
    /\ o["has_image"] = PyBool(FALSE)
    /\ o["has_color"] = PyBool(color)
    /\ o["object_count"] = PyInt(count)
    /\ o["lettering"] = PyStr(<<"-">>)

\* C20: the intake of a 1ho chocolate cake gives the price 48500; from there a
\* turn whose patch sets has_color gives 53500; from there a turn whose patch
\* sets object_count to 2 gives 57500 with has_color still set
C20_EndToEnd ==
    [][/\ (step = "FORM" /\ step' = "CHAT" /\ ScenarioOrder(order', FALSE, 0)) =>
             order'["price"] = PyInt(48500)
       /\ (/\ step = "CHAT" /\ ExtractorAnswers
           /\ ScenarioOrder(order, FALSE, 0) /\ order["price"] = PyInt(48500)
           /\ ChatTurn([kind |-> "text", text |-> Bare("color")])) =>
             /\ ScenarioOrder(order', TRUE, 0)
             /\ order'["price"] = PyInt(53500)
       /\ (/\ step = "CHAT" /\ ExtractorAnswers
           /\ ScenarioOrder(order, TRUE, 0) /\ order["price"] = PyInt(53500)
           /\ ChatTurn([kind |-> "text", text |-> Bare("count2")])) =>
             /\ ScenarioOrder(order', TRUE, 2)
             /\ order'["price"] = PyInt(57500)]_vars

\* the scenario has run: intake, the color turn, the object turn
C20_Witness ==
    /\ step = "CHAT"
    /\ pc = "rerun"
    /\ ~process_on_next
    /\ Len(messages) = 5
    /\ messages[3].content = OK_REPLY
    /\ messages[5].content = OK_REPLY
    /\ ScenarioOrder(order, TRUE, 2)
    /\ order["design_desc"] = PyStr(<<"-">>)
    /\ order["price"] = PyInt(57500)

\* C21: in CHAT the estimate button opens the dialog and the dialog's send button
\* moves the session to SENT, whatever the order holds; outside CHAT the button
\* opens nothing and FORM never steps to SENT (both buttons are there whenever the
\* page of a CHAT session is drawn); in SENT no event changes the order,
\* its price or the history, and the step changes only by the full reset
C21_ConfirmAndTerminal ==
    /\ []((step = "CHAT" /\ SidebarReady) => ENABLED (ClickConfirm /\ dialog_open'))
    /\ []((step = "CHAT" /\ pc = "idle" /\ dialog_open) => ENABLED (SendOrder /\ step' = "SENT"))
    /\ [][/\ (step = "CHAT" /\ ClickConfirm) => dialog_open'
          /\ (step = "CHAT" /\ SendOrder) => (step' = "SENT" /\ order' = order /\ messages' = messages)
          /\ (step # "CHAT" /\ ClickConfirm) => (~dialog_open' /\ step' = step)
          /\ step = "FORM" => (step' # "SENT" /\ ~dialog_open')
          /\ (step # "SENT" /\ step' = "SENT") => (step = "CHAT" /\ dialog_open)
          /\ (step = "SENT" /\ step' = "SENT") =>
                (order' = order /\ messages' = messages /\ ~dialog_open' /\ UNCHANGED pendv)
          /\ (step = "SENT" /\ step' # "SENT") => FreshSession']_vars

\* an order with a color change went through the dialog and was sent
C21_Witness ==
    /\ step = "SENT"
    /\ pc = "idle"
    /\ ~dialog_open
    /\ Len(messages) = 3
    /\ order["has_color"] = PyBool(TRUE)
    /\ order["price"] = PyInt(53500)
    /\ uploaded_img = NoFile

\* C22: from intake to the reset, whatever a chat turn, a patch, the auto-design
\* stage or an attach or detach event does, order.name and order.phone are the
\* values entered in the form
C22_IdentityImmutable ==
    [][(step = "CHAT" /\ step' = "CHAT") =>
          /\ order'["name"] = order["name"]
          /\ order'["phone"] = order["phone"]]_vars

\* the place of a request in the chain of one turn
Rank(token) ==
    CASE token = "extract" -> 1
      [] token = "brief" -> 2
      [] OTHER -> 3

\* how many requests of the log carry the token
Count(log, token) == Cardinality({i \in 1..Len(log) : log[i] = token})

\* the turns of the history that are the processing notice
Placeholders == {i \in 1..Len(messages) : messages[i].content = PyStr(PROCESSING_NOTICE)}

\* C23: at most one chat input is pending and one placeholder is waiting, and
\* only while the deferred step is under way; no turn is added to the history
\* while an input is pending; a turn's requests go out in the order extractor,
\* brief generator, image synthesizer, one extractor request and one brief
\* request at most, the image only after the brief generator has returned; the
\* extractor is asked in every turn that can reach it; the brief generator and
\* the image synthesizer are asked only with the auto-design toggle on
C23_OneChainInOrder ==
    /\ [](/\ Cardinality(Placeholders) <= 1
          /\ app = "pro" => (DeferredRunning <=> pending_prompt # None)
          /\ app = "pro" => (DeferredRunning <=> Placeholders # {})
          /\ process_on_next => (pc = "rerun" /\ call_log = <<>>)
          /\ \A i, j \in 1..Len(call_log) : i < j => Rank(call_log[i]) <= Rank(call_log[j])
          /\ Count(call_log, "extract") <= 1
          /\ Count(call_log, "brief") <= 1
          /\ Count(call_log, "image") <= 1
          /\ pc \in {"brief", "image"} =>
                /\ auto_generate_design
                /\ has_responses => Count(call_log, "extract") = 1
          /\ pc = "image" =>
                /\ design_brief.ty = "str"
                /\ has_responses => Count(call_log, "brief") = 1)
    /\ [][/\ DeferredRunning =>
                /\ Len(messages') = Len(messages)
                /\ pending_prompt' \in {pending_prompt, None}
                /\ auto_generate_design' = auto_generate_design
          /\ (process_on_next /\ ~process_on_next' /\ ExtractorAnswers) =>
                (call_log' # <<>> /\ call_log'[1] = "extract")
          /\ (\E prompt \in Prompts, resp \in Responses : ChatInputBasic(prompt, resp)) =>
                call_log' = IF ExtractorAnswers THEN <<"extract">> ELSE <<>>
          /\ (call_log' # call_log /\ call_log' # <<>> /\ Rank(call_log'[Len(call_log')]) > 1) =>
                auto_generate_design]_vars

\* a turn with auto-design on has sent its three requests in order and ended
C23_Witness ==
    /\ pc = "rerun"
    /\ ~process_on_next
    /\ pending_prompt = None
    /\ call_log = <<"extract", "brief", "image">>
    /\ generated_design_image # NoFile
    /\ Placeholders = {}

\* what the extractor hands back in the deferred step when the model answers resp
Extracted(resp) ==
    analyze_intent_with_gpt(pending_prompt, <<order>>, 1, clean_hist(messages), resp)

\* request_design_image returns None without a request
NoImageBackend == api_key = "none" \/ ~has_images

\* C24: when the deferred step ends, the placeholder's content is the
\* extractor's reply with auto-design off; with auto-design on it is the "design
\* generated" notice around the brief when the synthesizer gave image bytes, and
\* the failure notice followed by the extractor's reply when the synthesizer
\* gave none, be it for want of an image backend or of bytes in the answer
C24_ContentByMode ==
    [][(DeferredRunning /\ ~DeferredRunning') =>
          LET content == messages'[pending_placeholder_idx + 1].content
          IN  /\ \A resp \in PatchResponses :
                    (ProcessPending(resp) /\ ~auto_generate_design) =>
                       content = Extracted(resp).reply
              /\ \A resp \in PatchResponses :
                    (/\ ProcessPending(resp)
                     /\ auto_generate_design
                     /\ ~calculate_price(Extracted(resp).heap[Extracted(resp).ref]).raised) =>
                       content = PyStr(GEN_FAILED_PREFIX \o Extracted(resp).reply.s)
              /\ \A outcome \in {"text", "empty"} :
                    BriefReturns(outcome) => content = PyStr(GEN_FAILED_PREFIX \o ai_res.s)
              /\ \A p \in ImagePayloads :
                    /\ ImageRequest("ok", p) =>
                          content = PyStr(GENERATED_HEAD \o design_brief.s \o GENERATED_TAIL)
                    /\ ImageRequest("empty", p) =>
                          content = PyStr(GEN_FAILED_PREFIX \o ai_res.s)]_vars

\* the design texts and the flavor of an order, as lines 460-462 read them
ContextOf(o, prompt) ==
    [prompt |-> prompt,
     design_context |-> IF "design_desc" \in DOMAIN o THEN o["design_desc"] ELSE PyStr(<<"-">>),
     lettering_context |-> IF "lettering" \in DOMAIN o THEN o["lettering"] ELSE PyStr(<<"-">>),
     filling |-> IF "filling" \in DOMAIN o THEN o["filling"] ELSE PyStr(<<>>)]

\* the order the extractor hands back when the model answers resp
ExtractedOrder(resp) == Extracted(resp).heap[Extracted(resp).ref]

\* C25: with auto-design on, the brief and the image are asked for with the
\* design text, the lettering and the flavor of the order the extractor returned
\* in this very step; image bytes make the step store the brief as design_desc,
\* keep the bytes as the generated image and price the order again; without
\* image bytes the stage leaves design_desc and the generated image alone
C25_AutoDesignFromUpdatedOrder ==
    [][/\ \A resp \in Responses :
             (ProcessPending(resp) /\ pc' \in {"brief", "image"}) =>
                /\ auto_generate_design
                /\ order' = WithPrice(ExtractedOrder(resp))
                /\ combined_prompt' = ContextOf(ExtractedOrder(resp), pending_prompt)
       /\ (pc \in {"brief", "image"} /\ pc' \in {"brief", "image"}) =>
             (combined_prompt' = combined_prompt /\ order' = order)
       /\ \A p \in ImagePayloads :
             ImageRequest("ok", p) =>
                /\ design_brief.ty = "str"
                /\ DOMAIN order' = DOMAIN order
                /\ \A k \in DOMAIN order \ {"design_desc", "price"} : order'[k] = order[k]
                /\ order'["design_desc"] = design_brief
                /\ order'["price"] = PyInt(calculate_price(order').value)
                /\ generated_design_image' = PayloadBytes[p]
       /\ (/\ pc \in {"brief", "image"}
           /\ pc' = "rerun"
           /\ ~ \E p \in ImagePayloads : ImageRequest("ok", p)) =>
             (order' = order /\ generated_design_image' = generated_design_image)
       /\ \A resp \in Responses :
             (ProcessPending(resp) /\ auto_generate_design /\ pc' = "rerun") =>
                /\ generated_design_image' = generated_design_image
                /\ ContextOf(order', pending_prompt) =
                      ContextOf(ExtractedOrder(resp), pending_prompt)]_vars

\* a second turn with auto-design on: the first turn's image is held and its
\* brief was the design, the extractor has just set a new design text, and the
\* image is being asked for with that new text
C25_Witness ==
    /\ pc = "image"
    /\ generated_design_image = "imgA"
    /\ Len(messages) = 5
    /\ order["design_desc"] = PyStr(<<"C">>)
    /\ combined_prompt.design_context = PyStr(<<"C">>)
    /\ combined_prompt.prompt = PyStr(<<"hello">>)

\* C26: when the first request to the preferred model was rejected as malformed
\* and the retry without the cited parameters is refused for permission, the
\* synthesizer asks the alternate model and the refusal does not reach main()
C26_RefusedRetryFallsBack ==
    [][(/\ pc = "image"
        /\ img_call.depth = 1
        /\ img_call.model = DEFAULT_IMAGE_MODEL
        /\ img_call.attempt = "retry"
        /\ \E p \in ImagePayloads : ImageRequest("denied", p)) =>
          /\ pc' = "image"
          /\ img_call' = FirstRequest(ALT_IMAGE_MODEL, 2)
          /\ call_log' = Append(call_log, "image_alt")
          /\ UNCHANGED <<messages, order, generated_design_image>>]_vars

\* C27: the restart button leaves the session as a first run does: step FORM,
\* an empty order and an empty history, no reference image, no generated image,
\* the toggle off, nothing pending; and the order of the next intake is made of
\* the form's values alone, with the welcome turn as the whole history
C27_ResetIsFresh ==
    [][/\ (step = "SENT" /\ step' # "SENT") =>
             /\ FreshSession'
             /\ last_img' = NoFile
             /\ uploader' = NoFile
             /\ ~auto_generate_design'
             /\ ~auto_generate_toggle'
             /\ ~dialog_open'
       /\ (step = "FORM" /\ step' = "CHAT") =>
             /\ \E name \in FormNames, phone \in FormPhones, size \in DOMAIN MENU_sizes,
                   fill \in DOMAIN MENU_fillings, date \in DOMAIN SCHEDULE :
                   \E time_sel \in TimeChoices(date) :
                      order' = IntakeOrder(name, phone, size, fill, date, time_sel)
             /\ Len(messages') = 1
             /\ uploaded_img' = NoFile
             /\ last_img' = NoFile
             /\ generated_design_image' = NoFile
             /\ ~process_on_next'
             /\ pending_prompt' = None]_vars

\* a session that held a generated image and had the toggle on was sent and
\* reset, and the next intake has started
C27_Witness ==
    /\ step = "CHAT"
    /\ Len(messages) = 1
    /\ call_log = <<"extract", "brief", "image">>
    /\ generated_design_image = NoFile
    /\ ~auto_generate_design
    /\ order["design_desc"] = PyStr(<<"-">>)
    /\ order["price"] = PyInt(48500)

\* C28: in every order of a session past intake object_count is an integer of
\* 0 or more and has_color is a boolean, and the stored price is not below
\* size fee + flavor fee + custom fee
C28_ExtrasWellTyped ==
    (step \in {"CHAT", "SENT"} /\ pc \in {"idle", "rerun"}) =>
        /\ order["object_count"].ty = "int"
        /\ order["object_count"].n >= 0
        /\ order["has_color"].ty = "bool"
        /\ order["price"].n >= TableGet(MENU_sizes, order["size"])
                               + TableGet(MENU_fillings, order["filling"])
                               + MENU_base_custom

\* C29: every turn of the history is a user turn or an assistant turn and its
\* content is a str, so the chat bubbles of a CHAT page are drawn without an
\* exception
C29_TurnsAreText ==
    /\ \A i \in 1..Len(messages) :
          /\ messages[i].role \in {"user", "assistant"}
          /\ messages[i].content.ty = "str"
    /\ ~ChatRenderCrashes

\* the JSON objects that have both members, updated_order and response_message
CompleteDocs == {id \in DocIds : DocOf[id].uo # "absent" /\ DocOf[id].rm = "present"}

\* the extractor of the running program on the given order and response text
ExtractorOn(o, text) ==
    IF app = "pro"
    THEN analyze_intent_with_gpt(PyStr(<<"hello">>), <<o>>, 1, <<>>,
                                 [kind |-> "text", text |-> text])
    ELSE analyze_intent_with_gpt_basic(PyStr(<<"hello">>), <<o>>, 1, <<>>,
                                       [kind |-> "text", text |-> text])

\* C30: a response that is one JSON object with both members gives the same
\* returned order and the same reply when it comes in a fenced code block or
\* between prose as when it comes bare, in app_pro and in app_basic
C30_WrappingsAgree ==
    (ex.phase = "done" /\ ex.called) =>
        \A id \in CompleteDocs :
            ex.resp.text \in {Fenced(id), InProse(id)} =>
                LET bare == ExtractorOn(ex.input, Bare(id))
                IN  /\ ex.raised = bare.raised
                    /\ ex.ret = bare.heap[bare.ref]
                    /\ ex.reply = bare.reply

----------------------------------------------------------------------------
(* The image flag and the held reference image *)

\* the session holds reference-image bytes
HoldsImage == uploaded_img # NoFile

\* C31: in every state with phase CHAT or SENT, order.has_image is true if and
\* only if the session holds a reference image, whatever patches, attach and
\* detach events have occurred
C31_FlagInSync ==
    step \in {"CHAT", "SENT"} =>
        (DictGet(order, "has_image", None) = PyBool(TRUE) <=> HoldsImage)

----------------------------------------------------------------------------
(* The single pending slot of the deferred-processing protocol *)

\* a run of the script has ended: the page waits for an event, or st.rerun()
\* has been called and the next run has not started
EndOfCycle == pc \in {"idle", "rerun"}

\* the last two turns are the user's turn with the pending input and the
\* assistant's placeholder, and the recorded index (counted from 0) is the
\* placeholder's
PendingSlotAtEnd ==
    /\ Len(messages) >= 2
    /\ pending_placeholder_idx = Len(messages) - 1
    /\ messages[Len(messages)] = Turn("assistant", PyStr(PROCESSING_NOTICE))
    /\ messages[Len(messages) - 1] = Turn("user", pending_prompt)

\* C32: whenever the process-on-next flag is set, the phase is CHAT, the recorded
\* placeholder index is the last position of the history, the turn there is the
\* assistant placeholder with the processing notice and the turn before it is
\* the user turn with the pending input; whenever the flag is not set at the
\* end of a cycle, no pending input and no placeholder index is stored and no
\* turn carries the processing notice
C32_SinglePendingSlot ==
    /\ process_on_next => (step = "CHAT" /\ PendingSlotAtEnd)
    /\ (~process_on_next /\ EndOfCycle) =>
          /\ pending_prompt = None
          /\ pending_placeholder_idx = NoIdx
          /\ Placeholders = {}

\* the flag is set for a second input after the first input's cycle has ended:
\* the first placeholder, at position 3, carries its turn's result, and the
\* second one is the last turn
C32_Witness ==
    /\ process_on_next
    /\ Len(messages) = 5
    /\ pending_placeholder_idx = 4
    /\ messages[2].role = "user"
    /\ messages[3].role = "assistant"
    /\ messages[3].content # PyStr(PROCESSING_NOTICE)
    /\ call_log = <<>>

====
